---------------------------- MODULE Spec2Model ----------------------------
(***************************************************************************)
(* Client address resolution of src/utils/request_utils.py:                *)
(* get_client_ip(request) and extract_ip_from_headers(headers, count).     *)
(*                                                                         *)
(* A Python str is a sequence of one-character strings.  An Optional value *)
(* is None (the empty tuple) or Some(v) (the one-element tuple holding v). *)
(* A call's outcome is a record: a returned str, or a raised exception.    *)
(* A request travels from a client through zero or more proxy hops, each   *)
(* appending the address of its peer to X-Forwarded-For, and is then       *)
(* resolved by one of the two functions.                                   *)
(***************************************************************************)
EXTENDS Integers, Sequences, FiniteSets

VARIABLES
    trusted_proxy_count,  \* config.trusted_proxy_count, set once at start
    request,              \* the request as the server sees it: headers, client
    hops,                 \* proxy hops the request has passed
    appended,             \* the entries those hops appended, in order
    pc,                   \* "idle" | "inflight" | "resolved"
    call,                 \* the resolution call made: its function and argument
    result                \* what that call returned or raised

vars == <<trusted_proxy_count, request, hops, appended, pc, call, result>>

---------------------------------------------------------------------------
(* Bounds of the model *)

MaxLen == 3
MaxHops == 2
MaxTrust == 2

---------------------------------------------------------------------------
(* Python values *)

None == <<>>
Some(v) == <<v>>

\* Python truthiness of an Optional[str]: neither None nor "".
Truthy(opt) == opt # None /\ Len(opt[1]) > 0

Return(v) == [ok |-> TRUE, exc |-> "", val |-> v]
Raise(e) == [ok |-> FALSE, exc |-> e, val |-> <<>>]

unknown == <<"u", "n", "k", "n", "o", "w", "n">>

XFF == "x-forwarded-for"
XRealIP == "x-real-ip"

\* headers.get(key): None when the header is absent.
HeadersGet(headers, key) ==
    IF key \in DOMAIN headers THEN Some(headers[key]) ELSE None

\* headers.get(key, default)
HeadersGetOr(headers, key, default) ==
    IF key \in DOMAIN headers THEN headers[key] ELSE default

IsSpace(c) == c = " "

RECURSIVE lstrip(_)
lstrip(s) ==
    IF s # <<>> /\ IsSpace(Head(s)) THEN lstrip(Tail(s)) ELSE s

RECURSIVE rstrip(_)
rstrip(s) ==
    IF s # <<>> /\ IsSpace(s[Len(s)]) THEN rstrip(SubSeq(s, 1, Len(s) - 1)) ELSE s

\* str.strip()
strip(s) == rstrip(lstrip(s))

\* str.split(","): the pieces between the commas, empty pieces kept.
RECURSIVE split(_)
split(s) ==
    IF \A i \in 1..Len(s) : s[i] # ","
    THEN <<s>>
    ELSE LET i == CHOOSE k \in 1..Len(s) :
                      s[k] = "," /\ \A m \in 1..(k - 1) : s[m] # ","
         IN  <<SubSeq(s, 1, i - 1)>> \o split(SubSeq(s, i + 1, Len(s)))

\* Mutant of ParseChain: the filter tests the untrimmed piece ("if ip").
ParseChainUntrimmedFilter(forwarded_for) ==
    LET pieces == split(forwarded_for)
        kept == SelectSeq(pieces, LAMBDA ip : ip # <<>>)
    IN  [i \in 1..Len(kept) |-> strip(kept[i])]

\* [ip.strip() for ip in forwarded_for.split(",") if ip.strip()]
ParseChain(forwarded_for) ==
    LET pieces == split(forwarded_for)
        kept == SelectSeq(pieces, LAMBDA ip : strip(ip) # <<>>)
    IN  [i \in 1..Len(kept) |-> strip(kept[i])]

\* ips[i] of a Python list: a negative i counts from the end; out of range raises.
Subscript(ips, i) ==
    LET j == IF i < 0 THEN i + Len(ips) ELSE i
    IN  IF j < 0 \/ j >= Len(ips) THEN Raise("IndexError") ELSE Return(ips[j + 1])

\* Mutant of ClientHost: the host is not tested ("if request.client").
ClientHostUntested(req) == req.client # None

\* request.client and request.client.host
ClientHost(req) == req.client # None /\ Len(req.client[1]) > 0

---------------------------------------------------------------------------
(* The two resolvers *)

\* Mutant of get_client_ip: a short chain yields its innermost entry (ips[-1]).
get_client_ip_innermost(req) ==
    IF trusted_proxy_count = 0
    THEN IF ClientHost(req) THEN Return(req.client[1]) ELSE Return(unknown)
    ELSE
      LET forwarded_for == HeadersGet(req.headers, XFF)
          ips == IF Truthy(forwarded_for) THEN ParseChain(forwarded_for[1]) ELSE <<>>
          real_ip == HeadersGet(req.headers, XRealIP)
      IN  IF Truthy(forwarded_for) /\ Len(ips) > trusted_proxy_count
          THEN Subscript(ips, -(trusted_proxy_count + 1))
          ELSE IF Truthy(forwarded_for) /\ ips # <<>>
          THEN Subscript(ips, -1)
          ELSE IF Truthy(real_ip)
          THEN Return(strip(real_ip[1]))
          ELSE IF ClientHost(req)
          THEN Return(req.client[1])
          ELSE Return(unknown)

\* Mutant of get_client_ip: the peer address is tried before X-Real-IP.
get_client_ip_peer_first(req) ==
    IF trusted_proxy_count = 0
    THEN IF ClientHost(req) THEN Return(req.client[1]) ELSE Return(unknown)
    ELSE
      LET forwarded_for == HeadersGet(req.headers, XFF)
          ips == IF Truthy(forwarded_for) THEN ParseChain(forwarded_for[1]) ELSE <<>>
          real_ip == HeadersGet(req.headers, XRealIP)
      IN  IF Truthy(forwarded_for) /\ Len(ips) > trusted_proxy_count
          THEN Subscript(ips, -(trusted_proxy_count + 1))
          ELSE IF Truthy(forwarded_for) /\ ips # <<>>
          THEN Subscript(ips, 0)
          ELSE IF ClientHost(req)
          THEN Return(req.client[1])
          ELSE IF Truthy(real_ip)
          THEN Return(strip(real_ip[1]))
          ELSE Return(unknown)

get_client_ip(req) ==
    IF trusted_proxy_count = 0
    THEN IF ClientHost(req) THEN Return(req.client[1]) ELSE Return(unknown)
    ELSE
      LET forwarded_for == HeadersGet(req.headers, XFF)
          ips == IF Truthy(forwarded_for) THEN ParseChain(forwarded_for[1]) ELSE <<>>
          real_ip == HeadersGet(req.headers, XRealIP)
      IN  IF Truthy(forwarded_for) /\ Len(ips) > trusted_proxy_count
          THEN Subscript(ips, -(trusted_proxy_count + 1))
          ELSE IF Truthy(forwarded_for) /\ ips # <<>>
          THEN Subscript(ips, 0)
          ELSE IF Truthy(real_ip)
          THEN Return(strip(real_ip[1]))
          ELSE IF ClientHost(req)
          THEN Return(req.client[1])
          ELSE Return(unknown)

\* Mutant of extract_ip_from_headers: the index is off by one (ips[-n]).
extract_ip_off_by_one(headers, count) ==
    LET n == IF count = None THEN trusted_proxy_count ELSE count[1]
    IN  IF n = 0
        THEN Return(unknown)
        ELSE
          LET forwarded_for == HeadersGetOr(headers, XFF, <<>>)
              ips == IF forwarded_for # <<>> THEN ParseChain(forwarded_for) ELSE <<>>
              real_ip == HeadersGetOr(headers, XRealIP, <<>>)
          IN  IF forwarded_for # <<>> /\ Len(ips) > n
              THEN Subscript(ips, -n)
              ELSE IF forwarded_for # <<>> /\ ips # <<>>
              THEN Subscript(ips, 0)
              ELSE IF real_ip # <<>>
              THEN Return(strip(real_ip))
              ELSE Return(unknown)

\* Mutant of extract_ip_from_headers: an argument of 0 is taken for a missing
\* one ("if not trusted_proxy_count") and replaced by the configured value.
extract_ip_zero_as_missing(headers, count) ==
    LET n == IF count = None \/ count = Some(0) THEN trusted_proxy_count ELSE count[1]
    IN  IF n = 0
        THEN Return(unknown)
        ELSE
          LET forwarded_for == HeadersGetOr(headers, XFF, <<>>)
              ips == IF forwarded_for # <<>> THEN ParseChain(forwarded_for) ELSE <<>>
              real_ip == HeadersGetOr(headers, XRealIP, <<>>)
          IN  IF forwarded_for # <<>> /\ Len(ips) > n
              THEN Subscript(ips, -(n + 1))
              ELSE IF forwarded_for # <<>> /\ ips # <<>>
              THEN Subscript(ips, 0)
              ELSE IF real_ip # <<>>
              THEN Return(strip(real_ip))
              ELSE Return(unknown)

extract_ip_from_headers(headers, count) ==
    LET n == IF count = None THEN trusted_proxy_count ELSE count[1]
    IN  IF n = 0
        THEN Return(unknown)
        ELSE
          LET forwarded_for == HeadersGetOr(headers, XFF, <<>>)
              ips == IF forwarded_for # <<>> THEN ParseChain(forwarded_for) ELSE <<>>
              real_ip == HeadersGetOr(headers, XRealIP, <<>>)
          IN  IF forwarded_for # <<>> /\ Len(ips) > n
              THEN Subscript(ips, -(n + 1))
              ELSE IF forwarded_for # <<>> /\ ips # <<>>
              THEN Subscript(ips, 0)
              ELSE IF real_ip # <<>>
              THEN Return(strip(real_ip))
              ELSE Return(unknown)

---------------------------------------------------------------------------
(* The inputs a request can carry *)

Chars == {"a", "b", ",", " "}

Strings(n) == UNION {[1..k -> Chars] : k \in 0..n}

\* What a client may put in X-Forwarded-For: nothing, or any short string.
ForwardedValues == {None} \cup {Some(s) : s \in Strings(MaxLen)}

\* What X-Real-IP may hold: absent, empty, blank, an address, a padded address.
RealValues == {None, Some(<<>>), Some(<<" ">>), Some(<<"r">>), Some(<<" ", "r", " ">>)}

\* request.client: None, a peer without a host, or a peer address.
Clients == {None, Some(<<>>), Some(<<"a">>), Some(<<"b">>)}

ProxyAddr == <<"p">>

\* The trusted_proxy_count argument of extract_ip_from_headers.
CountArgs == {None} \cup {Some(n) : n \in (-1)..MaxTrust}

HeaderMap(x, r) ==
    [k \in (IF x = None THEN {} ELSE {XFF}) \cup (IF r = None THEN {} ELSE {XRealIP})
        |-> IF k = XFF THEN x[1] ELSE r[1]]

NoRequest == [headers |-> HeaderMap(None, None), client |-> None]
NoCall == [fn |-> "", arg |-> None]

\* A proxy hop appends the address of its peer to X-Forwarded-For.
AppendForwarded(headers, addr) ==
    [k \in DOMAIN headers \cup {XFF} |->
        IF k # XFF THEN headers[k]
        ELSE IF XFF \in DOMAIN headers
             THEN headers[XFF] \o <<",", " ">> \o addr
             ELSE addr]

---------------------------------------------------------------------------
(* The state machine *)

Init ==
    /\ trusted_proxy_count \in 0..MaxTrust
    /\ request = NoRequest
    /\ hops = 0
    /\ appended = <<>>
    /\ pc = "idle"
    /\ call = NoCall
    /\ result = Return(<<>>)

\* A client sends a request: any forwarding headers, from any peer address.
ClientSend ==
    /\ pc = "idle"
    /\ \E x \in ForwardedValues, r \in RealValues, c \in Clients :
          request' = [headers |-> HeaderMap(x, r), client |-> c]
    /\ pc' = "inflight"
    /\ UNCHANGED <<trusted_proxy_count, hops, appended, call, result>>

\* A proxy hop forwards the request: it appends its peer, and becomes the peer.
ProxyForward ==
    /\ pc = "inflight"
    /\ hops < MaxHops
    /\ ClientHost(request)
    /\ request' = [headers |-> AppendForwarded(request.headers, request.client[1]),
                   client |-> Some(ProxyAddr)]
    /\ appended' = Append(appended, request.client[1])
    /\ hops' = hops + 1
    /\ UNCHANGED <<trusted_proxy_count, pc, call, result>>

CallGetClientIp ==
    /\ pc = "inflight"
    /\ result' = get_client_ip(request)
    /\ call' = [fn |-> "get_client_ip", arg |-> None]
    /\ pc' = "resolved"
    /\ UNCHANGED <<trusted_proxy_count, request, hops, appended>>

CallExtractIp ==
    /\ pc = "inflight"
    /\ \E count \in CountArgs :
          /\ result' = extract_ip_from_headers(request.headers, count)
          /\ call' = [fn |-> "extract_ip_from_headers", arg |-> count]
    /\ pc' = "resolved"
    /\ UNCHANGED <<trusted_proxy_count, request, hops, appended>>

\* Nothing is kept from one request to the next.
NextRequest ==
    /\ pc = "resolved"
    /\ request' = NoRequest
    /\ hops' = 0
    /\ appended' = <<>>
    /\ pc' = "idle"
    /\ call' = NoCall
    /\ result' = Return(<<>>)
    /\ UNCHANGED trusted_proxy_count

Next ==
    \/ ClientSend
    \/ ProxyForward
    \/ CallGetClientIp
    \/ CallExtractIp
    \/ NextRequest

Spec == Init /\ [][Next]_vars

---------------------------------------------------------------------------
(* Vocabulary of the properties, stated without the resolvers' own helpers *)

Resolved == pc = "resolved"
ByGet == Resolved /\ call.fn = "get_client_ip"
ByExtract == Resolved /\ call.fn = "extract_ip_from_headers"

\* The trust depth the call ran with.
Depth ==
    IF ByExtract /\ call.arg # None THEN call.arg[1] ELSE trusted_proxy_count

\* The primary header's value ("" when absent) and the secondary header.
Primary == IF XFF \in DOMAIN request.headers THEN request.headers[XFF] ELSE <<>>
SecondaryPresent == XRealIP \in DOMAIN request.headers
Secondary == IF SecondaryPresent THEN request.headers[XRealIP] ELSE <<>>

\* The transport-level peer address, or the sentinel when there is none.
PeerPresent == request.client # None /\ request.client # Some(<<>>)
PeerOrUnknown == IF PeerPresent THEN request.client[1] ELSE unknown

\* An entry of the comma-separated s starts at i: s[i] is neither a blank nor
\* a comma, and only blanks lie between i and the comma (or start of s) before.
IsEntryStart(s, i) ==
    /\ s[i] # " "
    /\ s[i] # ","
    /\ \A m \in 1..(i - 1) : s[m] # " " => \E n \in m..(i - 1) : s[n] = ","

\* The entry starting at i ends at j: no comma in s[i..j], s[j] is no blank,
\* and only blanks lie between j and the comma (or end of s) after.
IsEntryEnd(s, i, j) ==
    /\ s[j] # " "
    /\ \A m \in i..j : s[m] # ","
    /\ \A m \in (j + 1)..Len(s) : s[m] # " " => \E n \in (j + 1)..m : s[n] = ","

EntryStarts(s) == {i \in 1..Len(s) : IsEntryStart(s, i)}

\* The entries of s, outermost (leftmost) first.
Entries(s) ==
    LET E == EntryStarts(s)
    IN  [k \in 1..Cardinality(E) |->
            LET i == CHOOSE e \in E : Cardinality({f \in E : f < e}) = k - 1
                j == CHOOSE e \in i..Len(s) : IsEntryEnd(s, i, e)
            IN  SubSeq(s, i, j)]

\* s without its leading and trailing blanks.
Trimmed(s) ==
    IF \A i \in 1..Len(s) : s[i] = " "
    THEN <<>>
    ELSE LET lo == CHOOSE i \in 1..Len(s) :
                       s[i] # " " /\ \A m \in 1..(i - 1) : s[m] = " "
             hi == CHOOSE j \in 1..Len(s) :
                       s[j] # " " /\ \A m \in (j + 1)..Len(s) : s[m] = " "
         IN  SubSeq(s, lo, hi)

Chain == Entries(Primary)
M == Cardinality(EntryStarts(Primary))

\* The same request with other forwarding headers, or another peer.
WithHeaders(x, r) == [headers |-> HeaderMap(x, r), client |-> request.client]

\* The request as it would have arrived had the client sent X-Forwarded-For x.
RECURSIVE ThroughHops(_, _)
ThroughHops(headers, entries) ==
    IF entries = <<>>
    THEN headers
    ELSE ThroughHops(AppendForwarded(headers, Head(entries)), Tail(entries))

\* The call that was made, made again on other headers.
ResolveAgain(headers) ==
    IF ByGet
    THEN get_client_ip([headers |-> headers, client |-> request.client])
    ELSE extract_ip_from_headers(headers, call.arg)

\* No source holds an address: no entry in the primary header, a secondary
\* header that is absent or blank, and (for get_client_ip) no peer address.
NoSource ==
    /\ ByExtract \/ ~PeerPresent
    /\ Depth # 0 => M = 0 /\ Trimmed(Secondary) = <<>>

---------------------------------------------------------------------------
(* The properties *)

\* C1 (zero-trust invariant): with trust depth 0, get_client_ip returns the
\* peer address when there is one and "unknown" otherwise, and returns what
\* it returns for the same peer with no forwarding header at all: since the
\* request ranges over every header value, any two requests with the same
\* peer resolve alike.
ZeroTrustInvariant ==
    (ByGet /\ trusted_proxy_count = 0) =>
        /\ result = Return(PeerOrUnknown)
        /\ result = get_client_ip(WithHeaders(None, None))

ZeroTrustWitness ==
    /\ ByGet
    /\ trusted_proxy_count = 0
    /\ M >= 2
    /\ Trimmed(Secondary) # <<>>
    /\ PeerPresent
    /\ result = Return(request.client[1])

\* C2 (anti-spoofing): with trust depth N >= 1 and exactly N hops having each
\* appended one entry, the resolved address does not depend on what the client
\* put in X-Forwarded-For: it is the address resolved when the client sent no
\* such header and the same hops appended the same entries.
AntiSpoofing ==
    (Resolved /\ Depth >= 1 /\ hops = Depth) =>
        result = ResolveAgain(ThroughHops(
                     HeaderMap(None, HeadersGet(request.headers, XRealIP)), appended))

\* C3 (chain indexing law): with trust depth N > 0 and a chain of M > N
\* entries, both resolvers return entry M - N - 1 counted from 0 at the
\* outermost end, which is Chain[M - N] counted from 1.
ChainIndexingLaw ==
    (Resolved /\ Depth > 0 /\ M > Depth) => result = Return(Chain[M - Depth])

ChainIndexingWitness ==
    /\ Resolved
    /\ Depth = 2
    /\ M = 4
    /\ Chain[2] # Chain[1]
    /\ Chain[2] # Chain[4]
    /\ Trimmed(Secondary) # <<>>
    /\ result = Return(Chain[2])

\* C4 (short-chain fallback): with trust depth N > 0 and a chain of M entries,
\* 1 <= M <= N, both resolvers return the outermost entry.
ShortChainFallback ==
    (Resolved /\ Depth > 0 /\ 1 <= M /\ M <= Depth) => result = Return(Chain[1])

ShortChainWitness ==
    /\ ByGet
    /\ Depth = 2
    /\ M = 2
    /\ Chain[1] # Chain[2]
    /\ Trimmed(Secondary) # <<>>
    /\ PeerPresent
    /\ result = Return(Chain[1])

SecondaryUsability ==
    (Resolved /\ Depth > 0 /\ M = 0) =>
        /\ Trimmed(Secondary) # <<>> => result = Return(Trimmed(Secondary))
        /\ Trimmed(Secondary) = <<>> =>
              result = Return(IF ByGet THEN PeerOrUnknown ELSE unknown)
        /\ result # Return(<<>>)

\* C7 (header-only asymmetry): extract_ip_from_headers with trust depth 0,
\* passed or configured, returns "unknown" whatever the headers are, also
\* where get_client_ip on the same request returns the peer address.
HeaderOnlyAsymmetry ==
    (ByExtract /\ Depth = 0) =>
        /\ result = Return(unknown)
        /\ (trusted_proxy_count = 0 /\ PeerPresent) =>
              get_client_ip(request) = Return(request.client[1])

HeaderOnlyWitness ==
    /\ ByExtract
    /\ Depth = 0
    /\ trusted_proxy_count = 0
    /\ PeerPresent
    /\ M >= 1
    /\ Trimmed(Secondary) # <<>>
    /\ result = Return(unknown)
    /\ get_client_ip(request) # result

\* C8 (whitespace/empty filtering): the parsed chain is the header's
\* comma-separated pieces, trimmed, the blank ones dropped; the length
\* compared with the trust depth and used in the index is the length after
\* that; with no entry left the call resolves as it does without the header.
WhitespaceFiltering ==
    (Resolved /\ Depth > 0) =>
        /\ ParseChain(Primary) = Chain
        /\ M > 0 => result = Return(Chain[IF M > Depth THEN M - Depth ELSE 1])
        /\ M = 0 => result = ResolveAgain(
                        HeaderMap(None, HeadersGet(request.headers, XRealIP)))

WhitespaceFilteringWitness ==
    /\ Resolved
    /\ Depth = 1
    /\ Cardinality({i \in 1..Len(Primary) : Primary[i] = ","}) = 2
    /\ M = 2
    /\ Chain[1] # Chain[2]
    /\ result = Return(Chain[1])

\* C9 (invalid trust depth): a call with a negative trust depth computes no
\* address from the chain and raises no IndexError: the depth is refused
\* before the selection.
NegativeDepthRefused ==
    (Resolved /\ Depth < 0) =>
        /\ M > 0 => ~result.ok
        /\ result.exc # "IndexError"

\* C10 (totality): with trust depth N >= 0 both resolvers return a string,
\* raising nothing, and return "unknown" when no source holds an address.
Totality ==
    (Resolved /\ Depth >= 0) =>
        /\ result.ok
        /\ NoSource => result = Return(unknown)

===========================================================================
